---- MODULE Spec2Model ----
(***************************************************************************)
(* Model of the Windows notification monitor binding                       *)
(* (src/main/native/notification-monitor/notification-monitor-windows.cc). *)
(*                                                                         *)
(* The binding has no thread of its own: every handler (constructor,       *)
(* destructor, Start, Stop, and the g_callback closure that forwards to    *)
(* OnNotificationReceived) runs to completion on the thread that calls it, *)
(* so each handler is one atomic action.  Notification events enter only   *)
(* through the process-wide g_callback closure, the one hook the           *)
(* constructor installs for them.                                          *)
(***************************************************************************)
EXTENDS Integers, Sequences, FiniteSets

\* ---- bounds ----
MaxMonitors == 2
MaxEvents == 2

Monitors == 1..MaxMonitors

\* ---- values ----
Callbacks == {"f1"}
NoArgument == "no_argument"
NotAFunction == "not_a_function"
Args == Callbacks \cup {NoArgument, NotAFunction}
Empty == "empty"
nullptr == 0
EmptyFunction == 0
NoError == "none"
CallbackRequired == "TypeError: Callback function required"

VARIABLES
    life,               \* per object: "unborn", "alive" or "destroyed"
    isMonitoring_,      \* NotificationMonitor::isMonitoring_
    callback_,          \* NotificationMonitor::callback_
    g_monitorInstance,  \* global instance pointer
    g_callback,         \* global closure, represented by the `this` it captured
    handed,             \* events handed to OnNotificationReceived, in order
    delivered,          \* invocations of the host callback, in order
    nextEvent,          \* id of the next event the OS will emit
    wasMonitoring,      \* per object: SetupMonitoring has run on it
    calls,              \* functions run by the last handler, in call order
    lastError,          \* JavaScript exception thrown by the last handler
    crashed             \* the process died in a use of a destroyed object

vars == <<life, isMonitoring_, callback_, g_monitorInstance, g_callback,
          handed, delivered, nextEvent, wasMonitoring, calls, lastError, crashed>>

\* The lifecycle state the specification speaks of, read off the object.
MonitorState(m) ==
    IF life[m] = "unborn" THEN "None"
    ELSE IF life[m] = "destroyed" THEN "Disposed"
    ELSE IF isMonitoring_[m] THEN "Monitoring"
    ELSE "Idle"

\* The monitor was Monitoring at some time and is not Monitoring now.
LeftMonitoring(m) == wasMonitoring[m] /\ MonitorState(m) # "Monitoring"

Init ==
    /\ life = [m \in Monitors |-> "unborn"]
    /\ isMonitoring_ = [m \in Monitors |-> FALSE]
    /\ callback_ = [m \in Monitors |-> Empty]
    /\ g_monitorInstance = nullptr
    /\ g_callback = EmptyFunction
    /\ handed = <<>>
    /\ delivered = <<>>
    /\ nextEvent = 1
    /\ wasMonitoring = [m \in Monitors |-> FALSE]
    /\ calls = <<>>
    /\ lastError = NoError
    /\ crashed = FALSE

\* The object the next `new NotificationMonitor(...)` runs its constructor on.
NextObject == CHOOSE m \in Monitors :
                 /\ life[m] = "unborn"
                 /\ \A k \in Monitors : life[k] = "unborn" => m <= k

\* ---- constructor ----
\* Mutant: the globals are registered before the argument is validated.
Construct_RegisterFirst(a) ==
    /\ ~crashed
    /\ \E m \in Monitors : life[m] = "unborn"
    /\ calls' = <<<<"NotificationMonitor", NextObject>>>>
    /\ g_monitorInstance' = NextObject
    /\ g_callback' = NextObject
    /\ IF a \notin Callbacks
       THEN /\ lastError' = CallbackRequired
            /\ UNCHANGED <<life, isMonitoring_, callback_>>
       ELSE /\ lastError' = NoError
            /\ life' = [life EXCEPT ![NextObject] = "alive"]
            /\ isMonitoring_' = [isMonitoring_ EXCEPT ![NextObject] = FALSE]
            /\ callback_' = [callback_ EXCEPT ![NextObject] = a]
    /\ UNCHANGED <<handed, delivered, nextEvent, wasMonitoring, crashed>>

Construct(a) ==
    /\ ~crashed
    /\ \E m \in Monitors : life[m] = "unborn"
    /\ calls' = <<<<"NotificationMonitor", NextObject>>>>
    /\ IF a \notin Callbacks
       THEN \* info.Length() < 1 || !info[0].IsFunction(): throw and return;
            \* the host's `new` fails, so no monitor comes to exist.
            /\ lastError' = CallbackRequired
            /\ UNCHANGED <<life, isMonitoring_, callback_,
                           g_monitorInstance, g_callback>>
       ELSE /\ lastError' = NoError
            /\ life' = [life EXCEPT ![NextObject] = "alive"]
            /\ isMonitoring_' = [isMonitoring_ EXCEPT ![NextObject] = FALSE]
            /\ callback_' = [callback_ EXCEPT ![NextObject] = a]
            /\ g_monitorInstance' = NextObject
            /\ g_callback' = NextObject
    /\ UNCHANGED <<handed, delivered, nextEvent, wasMonitoring, crashed>>

\* ---- SetupMonitoring ----
\* Mutant: the monitoring flag is process-wide instead of per object.
SetupMonitoring_ProcessWide(m) ==
    /\ isMonitoring_' = [k \in Monitors |-> life[k] = "alive"]
    /\ wasMonitoring' = [wasMonitoring EXCEPT ![m] = TRUE]

SetupMonitoring(m) ==
    /\ isMonitoring_' = [isMonitoring_ EXCEPT ![m] = TRUE]
    /\ wasMonitoring' = [wasMonitoring EXCEPT ![m] = TRUE]

\* ---- Start ----
\* Mutant: the `if (!isMonitoring_)` guard is missing.
Start_NoGuard(m) ==
    /\ ~crashed
    /\ life[m] = "alive"
    /\ SetupMonitoring(m)
    /\ calls' = <<<<"Start", m>>, <<"SetupMonitoring", m>>>>
    /\ lastError' = NoError
    /\ UNCHANGED <<life, callback_, g_monitorInstance, g_callback,
                   handed, delivered, nextEvent, crashed>>

Start(m) ==
    /\ ~crashed
    /\ life[m] = "alive"
    /\ IF ~isMonitoring_[m]
       THEN /\ SetupMonitoring(m)
            /\ calls' = <<<<"Start", m>>, <<"SetupMonitoring", m>>>>
       ELSE /\ UNCHANGED <<isMonitoring_, wasMonitoring>>
            /\ calls' = <<<<"Start", m>>>>
    /\ lastError' = NoError
    /\ UNCHANGED <<life, callback_, g_monitorInstance, g_callback,
                   handed, delivered, nextEvent, crashed>>

\* ---- Stop ----
\* The body of Stop, shared by the host's stop() and the destructor.
\* Mutant: Stop also drops the process-wide closure.
StopBody_ClearsGlobal(m) ==
    /\ isMonitoring_' = [isMonitoring_ EXCEPT ![m] = FALSE]
    /\ g_callback' = EmptyFunction
    /\ UNCHANGED <<callback_, g_monitorInstance>>

StopBody(m) ==
    /\ isMonitoring_' = [isMonitoring_ EXCEPT ![m] = FALSE]
    /\ UNCHANGED <<callback_, g_callback, g_monitorInstance>>

Stop(m) ==
    /\ ~crashed
    /\ life[m] = "alive"
    /\ StopBody(m)
    /\ calls' = <<<<"Stop", m>>>>
    /\ lastError' = NoError
    /\ UNCHANGED <<life, handed, delivered, nextEvent, wasMonitoring, crashed>>

\* ---- destructor ----
\* Mutant: the destructor does not stop a monitoring object.
Destroy_NoStop(m) ==
    /\ ~crashed
    /\ life[m] = "alive"
    /\ life' = [life EXCEPT ![m] = "destroyed"]
    /\ calls' = <<<<"~NotificationMonitor", m>>>>
    /\ lastError' = NoError
    /\ UNCHANGED <<isMonitoring_, callback_, g_callback, g_monitorInstance,
                   handed, delivered, nextEvent, wasMonitoring, crashed>>

Destroy(m) ==
    /\ ~crashed
    /\ life[m] = "alive"
    /\ life' = [life EXCEPT ![m] = "destroyed"]
    /\ IF isMonitoring_[m]
       THEN /\ StopBody(m)
            /\ calls' = <<<<"~NotificationMonitor", m>>, <<"Stop", m>>>>
       ELSE /\ UNCHANGED <<isMonitoring_, callback_, g_callback,
                           g_monitorInstance>>
            /\ calls' = <<<<"~NotificationMonitor", m>>>>
    /\ lastError' = NoError
    /\ UNCHANGED <<handed, delivered, nextEvent, wasMonitoring, crashed>>

\* ---- OnNotificationReceived ----
Handed(m, e) ==
    [inst |-> m, ev |-> e, monitoring |-> MonitorState(m) = "Monitoring"]

Invocation(m, e) ==
    [cb |-> callback_[m], inst |-> m, ev |-> e,
     monitoring |-> MonitorState(m) = "Monitoring",
     left |-> LeftMonitoring(m)]

\* Mutant: the record is put in front of the ones already delivered.
OnNotificationReceived_Lifo(m, e) ==
    /\ handed' = Append(handed, Handed(m, e))
    /\ delivered' = <<Invocation(m, e)>> \o delivered

OnNotificationReceived(m, e) ==
    /\ handed' = Append(handed, Handed(m, e))
    /\ delivered' = Append(delivered, Invocation(m, e))

\* ---- the g_callback closure ----
\* The OS hook calls g_callback; the closure forwards to the captured `this`.
Dispatch ==
    /\ ~crashed
    /\ nextEvent <= MaxEvents
    /\ g_callback # EmptyFunction
    /\ life[g_callback] = "alive"
    /\ OnNotificationReceived(g_callback, nextEvent)
    /\ nextEvent' = nextEvent + 1
    /\ calls' = <<<<"g_callback", g_callback>>,
                  <<"OnNotificationReceived", g_callback>>>>
    /\ lastError' = NoError
    /\ UNCHANGED <<life, isMonitoring_, callback_, g_monitorInstance,
                   g_callback, wasMonitoring, crashed>>

\* The captured `this` is destroyed: the call is a use after free.  The
\* freed object may still read as it was left (the stale callback_ is
\* called), the released reference may fail inside the try block (nothing is
\* delivered), or the process may die.
DispatchDangling ==
    /\ ~crashed
    /\ nextEvent <= MaxEvents
    /\ g_callback # EmptyFunction
    /\ life[g_callback] = "destroyed"
    /\ nextEvent' = nextEvent + 1
    /\ calls' = <<<<"g_callback", g_callback>>,
                  <<"OnNotificationReceived", g_callback>>>>
    /\ lastError' = NoError
    /\ \/ /\ OnNotificationReceived(g_callback, nextEvent)
          /\ UNCHANGED crashed
       \/ /\ handed' = Append(handed, Handed(g_callback, nextEvent))
          /\ UNCHANGED <<delivered, crashed>>
       \/ /\ handed' = Append(handed, Handed(g_callback, nextEvent))
          /\ crashed' = TRUE
          /\ UNCHANGED delivered
    /\ UNCHANGED <<life, isMonitoring_, callback_, g_monitorInstance,
                   g_callback, wasMonitoring>>

Next ==
    \/ \E a \in Args : Construct(a)
    \/ \E m \in Monitors : Start(m)
    \/ \E m \in Monitors : Stop(m)
    \/ \E m \in Monitors : Destroy(m)
    \/ Dispatch
    \/ DispatchDangling

Spec == Init /\ [][Next]_vars

TypeOK ==
    /\ life \in [Monitors -> {"unborn", "alive", "destroyed"}]
    /\ isMonitoring_ \in [Monitors -> BOOLEAN]
    /\ callback_ \in [Monitors -> Callbacks \cup {Empty}]
    /\ g_monitorInstance \in Monitors \cup {nullptr}
    /\ g_callback \in Monitors \cup {EmptyFunction}
    /\ nextEvent \in 1..(MaxEvents + 1)
    /\ wasMonitoring \in [Monitors -> BOOLEAN]
    /\ lastError \in {NoError, CallbackRequired}
    /\ crashed \in BOOLEAN

\* ---- helpers for the properties ----
Range(f) == {f[i] : i \in DOMAIN f}
Live(m) == life[m] = "alive"
WhileMonitoring(r) == r.monitoring
HandedWhileMonitoring == SelectSeq(handed, WhileMonitoring)
DeliveredWhileMonitoring == SelectSeq(delivered, WhileMonitoring)

\* C1: the host callback is never invoked for a monitor that has left the
\* Monitoring state (after Stop or after destruction): no recorded
\* invocation was made for a monitor that had been Monitoring and no longer
\* was.
C1_NoDeliveryAfterLeavingMonitoring ==
    \A i \in DOMAIN delivered : ~delivered[i].left

\* C2: every step moves each monitor's state only along
\* None --constructor--> Idle, Idle --Start--> Monitoring,
\* Monitoring --Stop--> Idle and {Idle, Monitoring} --destructor--> Disposed
\* (or leaves it as it is); Disposed is never left.
C2_Edge(m) ==
    LET s == MonitorState(m)
        t == MonitorState(m)'
    IN \/ s = t
       \/ s = "None" /\ t = "Idle" /\ \E a \in Callbacks : Construct(a)
       \/ s = "Idle" /\ t = "Monitoring" /\ Start(m)
       \/ s = "Monitoring" /\ t = "Idle" /\ Stop(m)
       \/ s \in {"Idle", "Monitoring"} /\ t = "Disposed" /\ Destroy(m)

C2_TransitionsFollowEdges == [][\A m \in Monitors : C2_Edge(m)]_vars

C2_Witness ==
    \E m \in Monitors : MonitorState(m) = "Disposed" /\ wasMonitoring[m]

\* C3: Start on a monitor that is already Monitoring succeeds, leaves it
\* Monitoring and does not run SetupMonitoring; Start from Idle runs it
\* exactly once; no event is delivered to the callback more than once.
C3_StartStep(m) ==
    /\ lastError' = NoError
    /\ MonitorState(m)' = "Monitoring"
    /\ IF MonitorState(m) = "Monitoring"
       THEN /\ calls' = <<<<"Start", m>>>>
            /\ UNCHANGED <<isMonitoring_, wasMonitoring>>
       ELSE calls' = <<<<"Start", m>>, <<"SetupMonitoring", m>>>>
    /\ \A i, j \in DOMAIN delivered' :
           delivered'[i].ev = delivered'[j].ev => i = j

C3_StartIdempotent ==
    [][\A m \in Monitors : Start(m) => C3_StartStep(m)]_vars

C3_Witness ==
    \E m \in Monitors :
        /\ calls = <<<<"Start", m>>>>
        /\ MonitorState(m) = "Monitoring"
        /\ \E i \in DOMAIN delivered : delivered[i].inst = m

\* C5: a construction with no argument or with a non-function argument
\* fails with the callback-required TypeError and changes no stored
\* callback, neither global, and no monitor.
C5_FailedConstructionRegistersNothing ==
    [][\A a \in Args \ Callbacks :
          Construct(a) =>
              /\ lastError' = CallbackRequired
              /\ UNCHANGED <<callback_, g_monitorInstance, g_callback,
                             life, isMonitoring_>>]_vars

C5_Witness ==
    /\ lastError = CallbackRequired
    /\ g_callback # EmptyFunction
    /\ g_monitorInstance # nullptr
    /\ \E m \in Monitors : life[m] = "unborn"

\* C6: Stop changes nothing but the monitoring flag of its own monitor;
\* on a monitor that is not Monitoring it changes no monitor state at all;
\* a Stop that follows a Stop of the same monitor changes nothing.
C6_StopStep(m) ==
    /\ UNCHANGED <<callback_, g_callback, g_monitorInstance, life,
                   handed, delivered, wasMonitoring>>
    /\ \A k \in Monitors \ {m} : isMonitoring_'[k] = isMonitoring_[k]
    /\ MonitorState(m)' = "Idle"
    /\ MonitorState(m) # "Monitoring" => isMonitoring_' = isMonitoring_
    /\ calls = <<<<"Stop", m>>>> => UNCHANGED vars

C6_StopFrame == [][\A m \in Monitors : Stop(m) => C6_StopStep(m)]_vars

C6_Witness ==
    \E m \in Monitors :
        /\ calls = <<<<"Stop", m>>>>
        /\ MonitorState(m) = "Idle"
        /\ ~wasMonitoring[m]
        /\ g_callback = m

\* C7: the destructor of a Monitoring monitor runs Stop, so the destroyed
\* object is left not monitoring; the destructor of an Idle monitor runs no
\* Stop.
C7_DestroyStep(m) ==
    /\ MonitorState(m)' = "Disposed"
    /\ ~isMonitoring_'[m]
    /\ IF MonitorState(m) = "Monitoring"
       THEN calls' = <<<<"~NotificationMonitor", m>>, <<"Stop", m>>>>
       ELSE calls' = <<<<"~NotificationMonitor", m>>>>

C7_DestructorStops ==
    [][\A m \in Monitors : Destroy(m) => C7_DestroyStep(m)]_vars

C7_Witness ==
    \E m \in Monitors :
        /\ calls = <<<<"~NotificationMonitor", m>>, <<"Stop", m>>>>
        /\ MonitorState(m) = "Disposed"
        /\ ~isMonitoring_[m]

\* C8: Start and Stop on one monitor never change the monitoring flag of
\* another, and constructing a further monitor never changes the instance
\* and closure that the events of an earlier, live monitor are dispatched
\* to.
C8_Step(m) ==
    /\ (Start(m) \/ Stop(m)) =>
           \A k \in Monitors \ {m} : isMonitoring_'[k] = isMonitoring_[k]
    /\ (g_callback = m /\ Live(m) /\ \E a \in Args : Construct(a)) =>
           /\ g_callback' = g_callback
           /\ g_monitorInstance' = g_monitorInstance

C8_PerInstanceState == [][\A m \in Monitors : C8_Step(m)]_vars

\* C9: the events handed to OnNotificationReceived while the monitor is
\* Monitoring are exactly the invocations of its callback made while
\* Monitoring, in the same order, each once; event ids only grow along the
\* invocations.
C9_DeliveredInCaptureOrder ==
    /\ Len(DeliveredWhileMonitoring) = Len(HandedWhileMonitoring)
    /\ \A i \in DOMAIN DeliveredWhileMonitoring :
           /\ DeliveredWhileMonitoring[i].ev = HandedWhileMonitoring[i].ev
           /\ DeliveredWhileMonitoring[i].inst = HandedWhileMonitoring[i].inst
           /\ DeliveredWhileMonitoring[i].cb =
                  callback_[HandedWhileMonitoring[i].inst]
    /\ \A i, j \in DOMAIN delivered :
           i < j => delivered[i].ev < delivered[j].ev

C9_Witness ==
    /\ Len(DeliveredWhileMonitoring) >= 2
    /\ Len(HandedWhileMonitoring) >= 2

\* C10: neither global refers to a destroyed monitor.
C10_GlobalsReferToLiveMonitor ==
    /\ g_monitorInstance # nullptr => Live(g_monitorInstance)
    /\ g_callback # EmptyFunction => Live(g_callback)

====
